---- MODULE Spec2Model ----
(***************************************************************************)
(* A model of sofarDevice.py (class sofarDevice): request frame            *)
(* generation, the receive loop and register decoding, and the retry loop  *)
(* of getRegisterRangeData with its plausibility checks.                   *)
(*                                                                         *)
(* Conventions.  A Python str that the code slices or formats is a         *)
(* sequence of one-character strings; a bytes object is a sequence of      *)
(* integers 0..255; a dict is a function; the value False returned by a    *)
(* method is the string "False".  Decoded values are kept in hundredths    *)
(* (value * 100), so that the scale factors 0.01, 0.1 and 10 stay exact.   *)
(* A range definition keeps its register entries (the "0x...." keys of the *)
(* dict) under the field registers.                                        *)
(***************************************************************************)
EXTENDS Integers, Sequences, FiniteSets, TLC

\* ------------------------------------------------------------------ bounds

\* Largest number of distinct range names the caller passes.
MaxRequested == 2

\* ------------------------------------------------------- Python primitives

HexDigits == <<"0", "1", "2", "3", "4", "5", "6", "7",
               "8", "9", "a", "b", "c", "d", "e", "f">>

UpperDigits == <<"0", "1", "2", "3", "4", "5", "6", "7",
                 "8", "9", "A", "B", "C", "D", "E", "F">>

\* The value of one hexadecimal digit of either case; -1 for any other character.
DigitValue(c) ==
    IF \E i \in 1..16 : HexDigits[i] = c
    THEN (CHOOSE i \in 1..16 : HexDigits[i] = c) - 1
    ELSE IF \E i \in 1..16 : UpperDigits[i] = c
         THEN (CHOOSE i \in 1..16 : UpperDigits[i] = c) - 1
         ELSE -1

RECURSIVE NatDigits(_)
\* The hexadecimal digits of a natural number, lower case, no leading zero.
NatDigits(n) ==
    IF n < 16 THEN <<HexDigits[n + 1]>>
    ELSE NatDigits(n \div 16) \o <<HexDigits[(n % 16) + 1]>>

RECURSIVE Zeros(_)
Zeros(n) == IF n <= 0 THEN <<>> ELSE <<"0">> \o Zeros(n - 1)

\* hex(n) of an int: "0x..." or "-0x...".
PyHex(n) ==
    IF n < 0 THEN <<"-", "0", "x">> \o NatDigits(-n)
    ELSE <<"0", "x">> \o NatDigits(n)

\* A 32-bit serial number is kept as its two 16-bit halves [hi, lo], since the
\* checker's integers end at 2^31 - 1.  hex(serial) of such a number.
PyHexSerial(serial) ==
    IF serial.hi = 0 THEN PyHex(serial.lo)
    ELSE PyHex(serial.hi) \o Zeros(4 - Len(NatDigits(serial.lo))) \o NatDigits(serial.lo)

\* s[a:b] for 0 <= a <= b: the slice is clipped to the string, never an error.
PySlice(s, a, b) ==
    LET hi == IF b < Len(s) THEN b ELSE Len(s)
    IN IF a >= hi THEN <<>> ELSE SubSeq(s, a + 1, hi)

\* s[a:]
PySliceFrom(s, a) == PySlice(s, a, Len(s))

\* s.zfill(w): zeros go after a leading sign.
PyZfill(s, w) ==
    IF Len(s) >= w THEN s
    ELSE IF Len(s) > 0 /\ s[1] \in {"-", "+"}
         THEN <<s[1]>> \o Zeros(w - Len(s)) \o Tail(s)
         ELSE Zeros(w - Len(s)) \o s

\* s.upper() on the characters that occur here.
PyUpper(s) ==
    [i \in 1..Len(s) |->
        IF DigitValue(s[i]) >= 10 THEN UpperDigits[DigitValue(s[i]) + 1] ELSE s[i]]

RECURSIVE HexValue(_)
\* The number a string of hexadecimal digits denotes; the empty string gives 0.
HexValue(s) ==
    IF Len(s) = 0 THEN 0
    ELSE 16 * HexValue(SubSeq(s, 1, Len(s) - 1)) + DigitValue(s[Len(s)])

\* int(s, 0) of a "0x"-prefixed literal.
PyInt0(s) == HexValue(PySliceFrom(s, 2))

\* bool(x) of a str: a non-empty string is true, also the string "False".
Truthy(str) == str # ""

RECURSIVE BytesValue(_)
\* The unsigned big-endian value of a bytes object; b'' gives 0.
BytesValue(b) ==
    IF Len(b) = 0 THEN 0
    ELSE 256 * BytesValue(SubSeq(b, 1, Len(b) - 1)) + b[Len(b)]

RECURSIVE Pow256(_)
Pow256(n) == IF n = 0 THEN 1 ELSE 256 * Pow256(n - 1)

\* int.from_bytes(b, "big", signed=s) for at most 4 bytes: two's complement
\* over the bytes actually given when s is true.
FromBytesBig(b, signed) ==
    IF signed /\ Len(b) > 0 /\ b[1] >= 128
    THEN IF Len(b) = 4
         THEN 256 * (256 * (256 * (b[1] - 256) + b[2]) + b[3]) + b[4]
         ELSE BytesValue(b) - Pow256(Len(b))
    ELSE BytesValue(b)

\* binascii.unhexlify(s) and bytearray.fromhex(s) on a string without blanks:
\* an odd number of digits or a character that is no digit raises.
HexStringOk(s) ==
    /\ Len(s) % 2 = 0
    /\ \A i \in 1..Len(s) : DigitValue(s[i]) >= 0

Unhexlify(s) ==
    [i \in 1..(Len(s) \div 2) |-> 16 * DigitValue(s[2 * i - 1]) + DigitValue(s[2 * i])]

\* b[a:c] = new on a bytearray (0 <= a <= c): the slice is clipped to the
\* array and replaced, so the array changes length when Len(new) # c - a.
SetSlice(b, a, c, new) ==
    LET lo == IF a < Len(b) THEN a ELSE Len(b)
        hi == IF c < Len(b) THEN c ELSE Len(b)
    IN SubSeq(b, 1, lo) \o new \o SubSeq(b, hi + 1, Len(b))

RECURSIVE Xor(_, _)
\* Bitwise exclusive or of two naturals.
Xor(a, b) ==
    IF a = 0 THEN b
    ELSE IF b = 0 THEN a
    ELSE (((a % 2) + (b % 2)) % 2) + 2 * Xor(a \div 2, b \div 2)

\* One shift step of the reflected CRC-16 with polynomial 0xA001.
CrcShift1(crc) ==
    IF crc % 2 = 1 THEN Xor(crc \div 2, 40961) ELSE crc \div 2

\* The eight shift steps made for one byte.
CrcShift8(crc) ==
    CrcShift1(CrcShift1(CrcShift1(CrcShift1(
        CrcShift1(CrcShift1(CrcShift1(CrcShift1(crc))))))))

RECURSIVE CrcFold(_, _)
\* The CRC register after the first n bytes of b.
CrcFold(b, n) ==
    IF n = 0 THEN 65535
    ELSE LET crc == CrcFold(b, n - 1)
         IN IF crc >= 0 THEN CrcShift8(Xor(crc, b[n])) ELSE crc

\* libscrc.modbus(b): CRC-16/MODBUS, initial value 0xFFFF.
Modbus(b) == CrcFold(b, Len(b))

RECURSIVE SumBytes(_, _, _)
\* The sum of b[i] & 255 for i in range(lo, hi) (0-based, hi exclusive).
SumBytes(b, lo, hi) ==
    IF lo >= hi THEN 0
    ELSE IF lo + 1 = hi THEN b[lo + 1] % 256
    ELSE LET mid == (lo + hi) \div 2
         IN SumBytes(b, lo, mid) + SumBytes(b, mid, hi)

\* ------------------------------------------------------------ the frame

\* padhex(s): '0x' + s[2:].zfill(4)
padhex(s) == <<"0", "x">> \o PyZfill(PySliceFrom(s, 2), 4)

\* hex_zfill(intval): '0x' + str(hex(intval))[2:].zfill(4)
hex_zfill(intval) == <<"0", "x">> \o PyZfill(PySliceFrom(PyHex(intval), 2), 4)

\* The argument of bytearray.fromhex for bytes 7..10: the slices [8:10],
\* [6:8], [4:6], [2:4] of hex(serial), which has no leading zeros.
SerialHexString(serial) ==
    LET h == PyHexSerial(serial)
    IN PySlice(h, 8, 10) \o PySlice(h, 6, 8) \o PySlice(h, 4, 6) \o PySlice(h, 2, 4)

\* The argument of unhexlify for the Modbus request ("business field").
BusinessHexString(regStart, regEnd) ==
    <<"0", "0", "0", "3">> \o PySliceFrom(hex_zfill(regStart), 2)
        \o PySliceFrom(hex_zfill(regEnd - regStart + 1), 2)

\* The argument of unhexlify for bytes 32..33: the CRC's low byte first.
CrcHexString(businessfield) ==
    LET p == padhex(PyHex(Modbus(businessfield)))
    IN PySlice(p, 4, 6) \o PySlice(p, 2, 4)

Returned(b) == [kind |-> "bytes", bytes |-> b, error |-> ""]
ReturnedFalse == [kind |-> "False", bytes |-> <<>>, error |-> ""]
Raised(e) == [kind |-> "raise", bytes |-> <<>>, error |-> e]

\* _generateRequest(regRangeDef) for serial number mySerialNumber: the frame,
\* False for a definition without start or end, or the exception raised.
generateRequest(regRangeDef, serial) ==
    IF "registerStart" \notin DOMAIN regRangeDef \/ "registerEnd" \notin DOMAIN regRangeDef
    THEN ReturnedFalse
    ELSE
    LET regStart == PyInt0(regRangeDef.registerStart)
        regEnd == PyInt0(regRangeDef.registerEnd)
        b0 == [i \in 1..36 |-> 0]
        b1 == SetSlice(b0, 0, 1, <<165>>)
        b2 == SetSlice(b1, 1, 3, <<23, 0>>)
        b3 == SetSlice(b2, 3, 5, <<16, 69>>)
        b4 == SetSlice(b3, 5, 7, <<0, 0>>)
        sh == SerialHexString(serial)
        b5 == SetSlice(b4, 7, 11, Unhexlify(sh))
        b6 == SetSlice(b5, 11, 26, <<2>> \o [i \in 1..14 |-> 0])
        bh == BusinessHexString(regStart, regEnd)
        businessfield == Unhexlify(bh)
        b7 == SetSlice(b6, 26, 32, businessfield)
        b8 == SetSlice(b7, 32, 34, Unhexlify(CrcHexString(businessfield)))
        checksum == SumBytes(b8, 1, 34)
        b9 == [b8 EXCEPT ![35] = checksum % 256]
        b10 == SetSlice(b9, 35, 36, <<21>>)
    IN IF ~HexStringOk(sh) THEN Raised("ValueError")
       ELSE IF ~HexStringOk(bh) THEN Raised("binascii.Error")
       ELSE IF Len(b8) < 35 THEN Raised("IndexError")
       ELSE Returned(b10)

\* ------------------------------------------------------ the Register Map

\* d[k] = v on a dict.
Put(d, k, v) == [x \in (DOMAIN d) \cup {k} |-> IF x = k THEN v ELSE d[x]]

EmptyDict == <<>>

\* A Register Map in the format of sofarProtocol.json: per range the start and
\* end register as "0x" literals and, per register address, the field's name,
\* value type and factor (in hundredths: 1 is 0.01, 10 is 0.1, 1000 is 10).
RegisterMap ==
    [PVOutput |->
        [registerStart |-> <<"0", "x", "0", "5", "8", "4">>,
         registerEnd |-> <<"0", "x", "0", "5", "8", "6">>,
         registers |->
            (<<"0", "x", "0", "5", "8", "4">> :>
                [name |-> "Voltage_PV1", valueType |-> "u16", factor |-> 10]) @@
            (<<"0", "x", "0", "5", "8", "5">> :>
                [name |-> "Power_PV1", valueType |-> "u16", factor |-> 1000]) @@
            (<<"0", "x", "0", "5", "8", "6">> :>
                [name |-> "Power_PV2", valueType |-> "u16", factor |-> 1000])],
     EnergyTodayTotals |->
        [registerStart |-> <<"0", "x", "0", "6", "8", "4">>,
         registerEnd |-> <<"0", "x", "0", "6", "8", "7">>,
         registers |->
            (<<"0", "x", "0", "6", "8", "4">> :>
                [name |-> "PV_Generation_Today", valueType |-> "u32", factor |-> 1]) @@
            (<<"0", "x", "0", "6", "8", "6">> :>
                [name |-> "PV_Generation_Total", valueType |-> "u32", factor |-> 10])],
     GridOutput |->
        [registerStart |-> <<"0", "x", "0", "4", "8", "4">>,
         registerEnd |-> <<"0", "x", "0", "4", "9", "3">>,
         registers |->
            (<<"0", "x", "0", "4", "8", "4">> :>
                [name |-> "Frequency_Grid", valueType |-> "u16", factor |-> 1]) @@
            (<<"0", "x", "0", "4", "8", "5">> :>
                [name |-> "Voltage_Phase_R", valueType |-> "u16"])],
     SystemInfo |->
        [registerStart |-> <<"0", "x", "0", "4", "0", "4">>,
         registerEnd |-> <<"0", "x", "0", "4", "0", "7">>,
         registers |->
            (<<"0", "x", "0", "4", "0", "4">> :>
                [name |-> "Temperature_Env1", valueType |-> "i16"]) @@
            (<<"0", "x", "0", "4", "0", "5">> :>
                [name |-> "Energy_Balance", valueType |-> "i32", factor |-> 1]) @@
            (<<"0", "x", "0", "4", "0", "7">> :>
                [name |-> "Status", valueType |-> "u16"])]]

\* The Register Map cut down to the ranges of names.
Protocol(names) == [n \in names |-> RegisterMap[n]]

\* A Register Map in which the definition of one range lacks registerEnd.
WithoutEnd(protocol, name) ==
    [n \in DOMAIN protocol |->
        IF n = name
        THEN [registerStart |-> protocol[n].registerStart, registers |-> protocol[n].registers]
        ELSE protocol[n]]

\* The range names a caller may pass: three the full map defines and two it
\* does not.
RangeNames == {"EnergyTodayTotals", "PVOutput", "GridOutput", "Battery", "Alarm"}

\* The Register Maps a device object is constructed with.
Protocols ==
    { Protocol({"EnergyTodayTotals", "PVOutput", "GridOutput"}),
      Protocol({"PVOutput", "GridOutput"}),
      WithoutEnd(Protocol({"EnergyTodayTotals", "PVOutput", "GridOutput"}), "GridOutput") }

\* ------------------------------------------------------------- decoding

\* The key under which the register at address addr is looked up:
\* "0x" + hex(addr)[2:].zfill(4).upper()
hexpos(addr) == <<"0", "x">> \o PyUpper(PyZfill(PySliceFrom(PyHex(addr), 2), 4))

\* float(regDef['factor']), 1 when the field has no factor; in hundredths.
FactorOf(regDef) == IF "factor" \in DOMAIN regDef THEN regDef.factor ELSE 100

\* The value of the signed argument the code passes for a value type: the
\* strings "False" and "True", which are both true.
SignedArg(valueType) ==
    IF valueType \in {"u16", "u32"} THEN Truthy("False") ELSE Truthy("True")

\* The number of bytes the slice of a value type asks for.
WidthOf(valueType) == IF valueType \in {"u16", "i16"} THEN 2 ELSE 4

\* The value stored for the register at offset idx (in hundredths).
DecodeValue(regDef, rawData, idx) ==
    LET idxStart == 28 + (idx * 2)
    IN FromBytesBig(PySlice(rawData, idxStart, idxStart + WidthOf(regDef.valueType)),
                    SignedArg(regDef.valueType)) * FactorOf(regDef)

\* A bound of one register more than the data holds: a plausible slip.
PastData_OneLate(idx, rawData) == 28 + (idx * 2) > Len(rawData)

\* "if idxEnd16 > len(data): break"
PastData(idx, rawData) == 28 + (idx * 2) + 2 > Len(rawData)

RECURSIVE DecodeLoop(_, _, _, _, _)
\* The for loop over the register offsets idx, idx + 1, ..., with the
\* output built so far.
DecodeLoop(regRangeDef, regStart, regEnd, rawData, st) ==
    LET idx == st.idx
        key == hexpos(idx + regStart)
    IN IF idx >= regEnd - regStart + 1 THEN st.output
       ELSE IF PastData(idx, rawData) THEN st.output
       ELSE IF key \notin DOMAIN regRangeDef.registers
            THEN DecodeLoop(regRangeDef, regStart, regEnd, rawData,
                            [idx |-> idx + 1, output |-> st.output])
       ELSE IF regRangeDef.registers[key].valueType \notin {"u16", "u32", "i16", "i32"}
            THEN DecodeLoop(regRangeDef, regStart, regEnd, rawData,
                            [idx |-> idx + 1, output |-> st.output])
       ELSE DecodeLoop(regRangeDef, regStart, regEnd, rawData,
                [idx |-> idx + 1,
                 output |-> Put(st.output, regRangeDef.registers[key].name,
                                DecodeValue(regRangeDef.registers[key], rawData, idx))])

\* The parsing part of _readRegisterRange: the fields decoded from data.
decodeRegisterRange(regRangeDef, rawData) ==
    DecodeLoop(regRangeDef, PyInt0(regRangeDef.registerStart),
               PyInt0(regRangeDef.registerEnd), rawData,
               [idx |-> 0, output |-> EmptyDict])

\* The accumulated length at which the receive loop stops reading:
\* (regEnd - regStart + 1) + 60 / 4
EnoughData(regRangeDef) ==
    (PyInt0(regRangeDef.registerEnd) - PyInt0(regRangeDef.registerStart) + 1) + 15

\* ------------------------------------------------------ range selection

requiredRegRanges == <<"EnergyTodayTotals", "PVOutput">>

InList(x, list) == \E i \in 1..Len(list) : list[i] = x

\* list.remove(x): the first occurrence goes.
ListRemove(list, x) ==
    LET i == CHOOSE j \in 1..Len(list) :
                 list[j] = x /\ \A k \in 1..(j - 1) : list[k] # x
    IN SubSeq(list, 1, i - 1) \o SubSeq(list, i + 1, Len(list))

\* A pass that adds nothing: the required ranges are left to the caller.
AddRequiredStep_Nothing(list, k) == list

\* One pass of "for reqRange in requiredRegRanges" for its k-th element.
AddRequiredStep(list, k) ==
    IF ~InList(requiredRegRanges[k], list) THEN list \o <<requiredRegRanges[1]>> ELSE list

\* The loop that adds the ranges the plausibility check reads.
AddRequired(list) == AddRequiredStep(AddRequiredStep(list, 1), 2)

RECURSIVE RemoveLoop(_, _, _)
\* "for reqRange in list: if reqRange not in protocol: list.remove(reqRange)":
\* the iterator is at 0-based position i of the list it is changing.
RemoveLoop(list, i, protocol) ==
    IF i >= Len(list) THEN list
    ELSE IF list[i + 1] \notin DOMAIN protocol
         THEN RemoveLoop(ListRemove(list, list[i + 1]), i + 1, protocol)
         ELSE RemoveLoop(list, i + 1, protocol)

\* The orders list(set(x)) may give the names of a set.
RECURSIVE Orders(_)
Orders(names) ==
    IF names = {} THEN {<<>>}
    ELSE UNION {{<<n>> \o rest : rest \in Orders(names \ {n})} : n \in names}

\* The statements of getRegisterRangeData before the retry loop, for one
\* order of the set.
NormalizeRanges(order, protocol) == RemoveLoop(AddRequired(order), 0, protocol)

\* ------------------------------------------------------- the environment

\* Rated system sizes (kW) the device object is constructed with.
SystemSizes == {0, 5}

\* Serial numbers the device object is constructed with (0x12345678 and
\* 0x01234567).
Serials == {[hi |-> 4660, lo |-> 22136], [hi |-> 291, lo |-> 17767]}

\* The 28 bytes that precede the register data in a response; the code reads
\* none of them.
ResponseHeader == <<165>> \o [i \in 1..27 |-> 0]

\* Register contents the inverter may report for a range, as the bytes of its
\* registers in address order.
DeviceRegisters(name) ==
    IF name = "PVOutput"
    THEN { <<11, 184, 0, 0, 0, 0>>,        \* 300.0 V, 0 W, 0 W
           <<11, 184, 0, 250, 0, 100>>,    \* 300.0 V, 2500 W, 1000 W
           <<11, 184, 2, 188, 0, 100>> }   \* 300.0 V, 7000 W, 1000 W
    ELSE IF name = "EnergyTodayTotals"
    THEN { <<0, 0, 1, 244, 0, 1, 0, 0>>,   \* 5.00 kWh today
           <<0, 0, 23, 112, 0, 1, 0, 0>> } \* 60.00 kWh today
    ELSE IF name = "SystemInfo"
    THEN { <<255, 251, 0, 1, 17, 112, 0, 2>> }   \* -5 degrees, 700.00, status 2
    ELSE { <<19, 136, 8, 252>> \o [i \in 1..28 |-> 0] }   \* 50.00 Hz, 2300

\* The responses the logger may send for a range.
Responses(name) == {ResponseHeader \o r : r \in DeviceRegisters(name)}

\* What one socket.recv(1024) call may give after have bytes were read: the
\* next piece of a response, up to one of a few lengths.
Chunks(name, have) ==
    UNION { { SubSeq(full, have + 1, upto) :
                upto \in {n \in {10, 30, 32, Len(full)} : n > have /\ n <= Len(full)} } :
            full \in Responses(name) }

ConnectOutcomes == {"connected", "refused", "timeout", "gaierror"}

\* The Register Maps the calling script loads from sofarProtocol.json.
ScriptProtocols ==
    { Protocol({"EnergyTodayTotals", "PVOutput", "GridOutput"}),
      Protocol({"EnergyTodayTotals", "PVOutput", "GridOutput", "SystemInfo"}) }

\* A range's definition has both registerStart and registerEnd.
WellFormed(regRangeDef) ==
    "registerStart" \in DOMAIN regRangeDef /\ "registerEnd" \in DOMAIN regRangeDef

\* The range definitions of all these Register Maps.
RangeDefs == UNION { {p[n] : n \in DOMAIN p} : p \in Protocols \cup ScriptProtocols }

\* The byte strings a receive loop may hold: a response's pieces, put together.
Received(name) ==
    LET More(S) == S \cup UNION { { d \o c : c \in Chunks(name, Len(d)) } : d \in S }
    IN More(More(More(More({<<>>}))))

\* The same, for the ranges that have the definition regRangeDef.
ReceivedFor(regRangeDef) ==
    UNION { Received(n) :
              n \in { n \in DOMAIN RegisterMap :
                        \E p \in Protocols \cup ScriptProtocols :
                            n \in DOMAIN p /\ p[n] = regRangeDef } }

\* _generateRequest, _readRegisterRange's decoding and its length threshold
\* are functions of the definition, the serial number and the bytes alone:
\* their values, computed once for the definitions, serial numbers and byte
\* strings that occur (joining a function with the empty function makes TLC
\* compute all its values at once).
Tabulated(f) == f @@ <<>>

RequestOf ==
    Tabulated([regRangeDef \in RangeDefs |->
        Tabulated([serial \in Serials |-> generateRequest(regRangeDef, serial)])])

DecodingOf ==
    Tabulated([regRangeDef \in {r \in RangeDefs : WellFormed(r)} |->
        Tabulated([d \in ReceivedFor(regRangeDef) |->
                      decodeRegisterRange(regRangeDef, d)])])

EnoughDataOf ==
    Tabulated([regRangeDef \in {r \in RangeDefs : WellFormed(r)} |-> EnoughData(regRangeDef)])

\* ------------------------------------------------------------- the state

VARIABLES
    callerArg,                \* the set of names passed to getRegisterRangeData
    sofarProtocol,            \* self.sofarProtocol
    mySystemSize,             \* self.mySystemSize
    mySerialNumber,           \* self.mySerialNumber
    requestedRegRangeDefs,    \* the local list of range names
    pc,                       \* the position in getRegisterRangeData
    retryCounter,             \* the loop variable of the retry loop
    connectedFlag,            \* self._connectedToInverterFlag
    mySocket,                 \* self.mySocket: None, list ([]), unconnected, open, closed
    output,                   \* the local dict output of the current attempt
    rangeIdx,                 \* position in the list of the inner for loop
    data,                     \* the bytes _readRegisterRange has accumulated
    recvEnd,                  \* how the receive loop ended whose data was decoded last
    requests,                 \* the ranges a request was sent for in the attempt
    result,                   \* what getRegisterRangeData returned
    exception,                \* the exception that left getRegisterRangeData
    earlier,                  \* whether an attempt that has ended had stored a range
    connectCalls,             \* number of _connect calls made so far
    everConnected,            \* whether a _connect call has succeeded so far
    frameSerial,              \* _generateRequest alone: self.mySerialNumber
    frameRange,               \* _generateRequest alone: the range's name
    frame,                    \* _generateRequest alone: what it returned
    decodeRange,              \* decoding alone: the range's name
    decodeData,               \* decoding alone: the bytes received
    decoded,                  \* decoding alone: the dict returned
    pvoV,                     \* the script: the settings pvo_v7, pvo_v8, ...
    scriptPc,                 \* the script: its position
    upload                    \* the script: the request it sent to pvoutput.org

vars == <<callerArg, sofarProtocol, mySystemSize, mySerialNumber,
          requestedRegRangeDefs, pc, retryCounter, connectedFlag, mySocket,
          output, rangeIdx, data, recvEnd, requests, result, exception, earlier, connectCalls,
          everConnected, frameSerial, frameRange, frame, decodeRange, decodeData, decoded,
          pvoV, scriptPc, upload>>

pollVars == <<callerArg, sofarProtocol, mySystemSize, mySerialNumber,
              requestedRegRangeDefs, pc, retryCounter, connectedFlag, mySocket,
              output, rangeIdx, data, recvEnd, requests, result, exception, earlier, connectCalls,
              everConnected>>

frameVars == <<frameSerial, frameRange, frame>>

decodeVars == <<decodeRange, decodeData, decoded>>

scriptVars == <<pvoV, scriptPc, upload>>

config == <<callerArg, sofarProtocol, mySystemSize, mySerialNumber, frameVars, decodeVars,
            scriptVars>>

NotCalled == [kind |-> "none", bytes |-> <<>>, error |-> ""]

\* The variables of _generateRequest and of decoding taken alone, unused.
FrameIdle == frameSerial = [hi |-> 0, lo |-> 0] /\ frameRange = "" /\ frame = NotCalled

DecodeIdle == decodeRange = "" /\ decodeData = <<>> /\ decoded = NotCalled

NoUpload == [status |-> "none", params |-> EmptyDict, temperature |-> "", voltage |-> ""]

\* The variables of the calling script, unused.
ScriptIdle == pvoV = <<>> /\ scriptPc = "idle" /\ upload = NoUpload

NoResult == [kind |-> "none", value |-> EmptyDict]
NoData == [kind |-> "False", value |-> EmptyDict]
DataResult(d) == [kind |-> "dict", value |-> d]

maxRetries == 10

\* range(1, maxRetries, 1)
RetryRange == 1..(maxRetries - 1)

Init ==
    /\ callerArg \in {names \in SUBSET RangeNames : Cardinality(names) <= MaxRequested}
    /\ sofarProtocol \in Protocols
    /\ mySystemSize \in SystemSizes
    /\ mySerialNumber \in Serials
    /\ requestedRegRangeDefs = <<>>
    /\ pc = "call"
    /\ retryCounter = 0
    /\ connectedFlag = FALSE
    /\ mySocket = "None"
    /\ output = EmptyDict
    /\ rangeIdx = 0
    /\ data = <<>>
    /\ recvEnd = "none"
    /\ requests = <<>>
    /\ result = NoResult
    /\ exception = ""
    /\ earlier = FALSE
    /\ connectCalls = 0
    /\ everConnected = FALSE
    /\ FrameIdle
    /\ DecodeIdle
    /\ ScriptIdle

\* ------------------------------------------------- getRegisterRangeData

\* The for statement takes the next value of range(1, maxRetries, 1), or the
\* loop is over and the method returns False.
NextAttempt(next) ==
    IF next \in RetryRange
    THEN /\ retryCounter' = next
         /\ pc' = "connect"
         /\ UNCHANGED <<result, exception>>
         /\ earlier' = (earlier \/ DOMAIN output # {})
    ELSE /\ retryCounter' = retryCounter
         /\ pc' = "done"
         /\ result' = NoData
         /\ exception' = ""
         /\ earlier' = (earlier \/ DOMAIN output # {})

\* An exception leaves the method.
Raise(e) ==
    /\ pc' = "raised"
    /\ exception' = e
    /\ UNCHANGED <<retryCounter, result, earlier>>

\* The statements before the retry loop, and the loop's first iteration begins.
Normalize ==
    /\ pc = "call"
    /\ \E order \in Orders(callerArg) :
           requestedRegRangeDefs' = NormalizeRanges(order, sofarProtocol)
    /\ NextAttempt(1)
    /\ UNCHANGED <<config, connectedFlag, mySocket, output, rangeIdx, data, recvEnd,
                   requests, connectCalls, everConnected>>

\* The inner for loop starts on the dict the attempt before left behind.
StartRanges_KeepOutput ==
    /\ output' = output
    /\ rangeIdx' = 1
    /\ data' = <<>>
    /\ recvEnd' = "none"
    /\ requests' = <<>>
    /\ pc' = IF Len(requestedRegRangeDefs) = 0 THEN "check" ELSE "send"
    /\ UNCHANGED <<retryCounter, result, exception, earlier>>

\* "output = {}" and the inner for loop starts (or ends at once on an empty list).
StartRanges ==
    /\ output' = EmptyDict
    /\ rangeIdx' = 1
    /\ data' = <<>>
    /\ recvEnd' = "none"
    /\ requests' = <<>>
    /\ pc' = IF Len(requestedRegRangeDefs) = 0 THEN "check" ELSE "send"
    /\ UNCHANGED <<retryCounter, result, exception, earlier>>

\* The top of an attempt: _connect() unless the flag is set, then either the
\* backoff and the next attempt or the first range.
Connect ==
    /\ pc = "connect"
    /\ IF connectedFlag
       THEN /\ StartRanges
            /\ UNCHANGED <<connectedFlag, mySocket, connectCalls, everConnected>>
       ELSE /\ connectCalls' = connectCalls + 1
            /\ \E outcome \in ConnectOutcomes :
                 CASE outcome = "connected" ->
                        /\ mySocket' = "open"
                        /\ connectedFlag' = TRUE
                        /\ everConnected' = TRUE
                        /\ StartRanges
                   [] outcome = "refused" ->
                        \* socket.error with a message: logged, break, return False
                        /\ mySocket' = "unconnected"
                        /\ connectedFlag' = FALSE
                        /\ NextAttempt(retryCounter + 1)
                        /\ UNCHANGED <<output, rangeIdx, data, recvEnd, requests,
                                       everConnected>>
                   [] outcome = "timeout" ->
                        \* socket.timeout: msg.strerror is None, and the
                        \* concatenation in the handler raises TypeError
                        /\ mySocket' = "unconnected"
                        /\ connectedFlag' = FALSE
                        /\ Raise("TypeError")
                        /\ UNCHANGED <<output, rangeIdx, data, recvEnd, requests,
                                       everConnected>>
                   [] outcome = "gaierror" ->
                        \* getaddrinfo is called outside the try statement
                        /\ mySocket' = "list"
                        /\ connectedFlag' = FALSE
                        /\ Raise("gaierror")
                        /\ UNCHANGED <<output, rangeIdx, data, recvEnd, requests,
                                       everConnected>>
    /\ UNCHANGED <<config, requestedRegRangeDefs>>

\* The attempt is given up with the flag cleared and the socket left as it is.
AbortAttempt_NoClose ==
    /\ connectedFlag' = FALSE
    /\ NextAttempt(retryCounter + 1)
    /\ rangeIdx' = 0
    /\ data' = <<>>
    /\ recvEnd' = "none"
    /\ requests' = <<>>
    /\ UNCHANGED <<mySocket, output>>

\* The retry loop's "if not self._connectedToInverterFlag: sleep; continue"
\* after the inner loop was left by break.
AbortAttempt ==
    /\ mySocket' = "closed"
    /\ connectedFlag' = FALSE
    /\ NextAttempt(retryCounter + 1)
    /\ rangeIdx' = 0
    /\ data' = <<>>
    /\ recvEnd' = "none"
    /\ requests' = <<>>
    /\ UNCHANGED output

\* One pass of the inner for loop up to the send: the definition is looked
\* up, the request generated and handed to sendall.
Send ==
    /\ pc = "send"
    /\ LET regRangeName == requestedRegRangeDefs[rangeIdx]
       IN IF regRangeName \notin DOMAIN sofarProtocol
          THEN /\ Raise("KeyError")
               /\ UNCHANGED <<connectedFlag, mySocket, output, rangeIdx, data, recvEnd,
                              requests>>
          ELSE LET requestBytes == RequestOf[sofarProtocol[regRangeName]][mySerialNumber]
               IN IF requestBytes.kind = "raise"
                  THEN /\ Raise(requestBytes.error)
                       /\ UNCHANGED <<connectedFlag, mySocket, output, rangeIdx, data,
                                      recvEnd, requests>>
                  ELSE \E sent \in IF requestBytes.kind = "bytes" THEN BOOLEAN ELSE {FALSE} :
                         IF sent
                         THEN \* sent; time.sleep(1); _readRegisterRange begins
                              /\ pc' = "recv"
                              /\ data' = <<>>
                              /\ requests' = Append(requests, regRangeName)
                              /\ UNCHANGED <<retryCounter, result, exception, earlier, connectedFlag,
                                             mySocket, output, rangeIdx, recvEnd>>
                         ELSE \* sendall raised: close, clear the flag, break
                              AbortAttempt
    /\ UNCHANGED <<config, requestedRegRangeDefs, connectCalls, everConnected>>

\* Any decoded mapping counts, also an empty one.
Usable_Any(regRangeVals) == TRUE

\* "if regRangeVals and isinstance(regRangeDef, dict)": a non-empty dict.
Usable(regRangeVals) == DOMAIN regRangeVals # {}

\* What _readRegisterRange returns once its receive loop is over with the
\* bytes d and the flag as the loop left it, and the caller's use of the
\* value: the range is stored, or the socket is closed and the attempt ends.
AfterReceive(d, flag, event) ==
    LET regRangeName == requestedRegRangeDefs[rangeIdx]
        regRangeDef == sofarProtocol[regRangeName]
        flag2 == flag /\ Len(d) > 0
        regRangeVals == IF flag2 THEN DecodingOf[regRangeDef][d] ELSE EmptyDict
    IN IF flag2 /\ Usable(regRangeVals)
       THEN /\ output' = Put(output, regRangeName, regRangeVals)
            /\ rangeIdx' = rangeIdx + 1
            /\ data' = d
            /\ recvEnd' = event
            /\ pc' = IF rangeIdx + 1 > Len(requestedRegRangeDefs) THEN "check" ELSE "send"
            /\ UNCHANGED <<retryCounter, result, exception, earlier, connectedFlag, mySocket,
                           requests>>
       ELSE AbortAttempt

\* One socket.recv call of the receive loop and, when it ends the loop, the
\* rest of _readRegisterRange and of the inner loop's pass.
Recv ==
    /\ pc = "recv"
    /\ LET regRangeName == requestedRegRangeDefs[rangeIdx]
           regRangeDef == sofarProtocol[regRangeName]
       IN \/ \E chunk \in Chunks(regRangeName, Len(data)) :
                IF Len(data \o chunk) >= EnoughDataOf[regRangeDef]
                THEN AfterReceive(data \o chunk, connectedFlag, "enough")
                ELSE /\ data' = data \o chunk
                     /\ UNCHANGED <<pc, retryCounter, result, exception, earlier, connectedFlag,
                                    mySocket, output, rangeIdx, recvEnd, requests>>
          \/ \E event \in {"empty", "timeout", "error"} :
                \* an empty chunk and any other exception clear the flag, a
                \* socket.timeout only leaves the loop
                CASE event = "empty" -> AfterReceive(data, FALSE, event)
                  [] event = "timeout" -> AfterReceive(data, connectedFlag, event)
                  [] event = "error" -> AfterReceive(data, FALSE, event)
    /\ UNCHANGED <<config, requestedRegRangeDefs, connectCalls, everConnected>>

HasField(d, range, fieldName) ==
    range \in DOMAIN d /\ fieldName \in DOMAIN d[range]

\* output['PVOutput']['Power_PV1'] + output['PVOutput']['Power_PV2']
PowerTotal(d) == d["PVOutput"]["Power_PV1"] + d["PVOutput"]["Power_PV2"]

\* Both limits must be exceeded: "and" written for "or".
TooLarge_Both(d, size) ==
    /\ d["EnergyTodayTotals"]["PV_Generation_Today"] > 10 * size * 100
    /\ d["PVOutput"]["Power_PV1"] + d["PVOutput"]["Power_PV2"] > 1200 * size * 100

\* The comparison of the plausibility check for system size size (values in
\* hundredths).
TooLarge(d, size) ==
    \/ d["EnergyTodayTotals"]["PV_Generation_Today"] > 10 * size * 100
    \/ PowerTotal(d) > 1200 * size * 100

\* The check without its guard on the system size.
Implausible_Unguarded(d, size) ==
    /\ HasField(d, "EnergyTodayTotals", "PV_Generation_Today")
    /\ TooLarge(d, size)

\* The check with a lower bound of 10 on the total power added to it.
Implausible_WithFloor(d, size) ==
    \/ PowerTotal(d) < 10 * 100
    \/ size # 0 /\ TooLarge(d, size)

\* The condition of the if statement that rejects an attempt.
Implausible(d, size) == size # 0 /\ TooLarge(d, size)

\* Whether the for loop of the sanity check finds a listed range missing.
RangeMissing(list, d) == \E i \in 1..Len(list) : list[i] \notin DOMAIN d

\* Whether evaluating the plausibility statements raises KeyError.
CheckRaises(d, size) ==
    \/ ~HasField(d, "PVOutput", "Power_PV1")
    \/ ~HasField(d, "PVOutput", "Power_PV2")
    \/ size # 0 /\ ~HasField(d, "EnergyTodayTotals", "PV_Generation_Today")

\* The statements after the inner loop of an attempt that is still connected:
\* the sanity check, whose continue belongs to its own for loop, and the
\* plausibility check.
Check ==
    /\ pc = "check"
    /\ LET missing == RangeMissing(requestedRegRangeDefs, output)
           sock == IF missing THEN "closed" ELSE mySocket
           flag == IF missing THEN FALSE ELSE connectedFlag
       IN IF CheckRaises(output, mySystemSize)
          THEN /\ mySocket' = sock
               /\ connectedFlag' = flag
               /\ Raise("KeyError")
          ELSE IF Implausible(output, mySystemSize)
          THEN /\ mySocket' = "closed"
               /\ connectedFlag' = FALSE
               /\ NextAttempt(retryCounter + 1)
          ELSE /\ mySocket' = sock
               /\ connectedFlag' = flag
               /\ pc' = "done"
               /\ result' = DataResult(output)
               /\ UNCHANGED <<retryCounter, exception, earlier>>
    /\ UNCHANGED <<config, requestedRegRangeDefs, output, rangeIdx, data, recvEnd,
                   requests, connectCalls, everConnected>>

Next == Normalize \/ Connect \/ Send \/ Recv \/ Check

\* One call of getRegisterRangeData on a new device object.
Spec == Init /\ [][Next]_vars

\* The same call, with the interpreter going on to the next statement as long
\* as there is one: every connect, sendall and recv call returns or raises
\* (the socket has a timeout of 15 s) and every sleep ends.
SpecLive == Init /\ [][Next]_vars /\ WF_vars(Next)

\* --------------------------------------------- _generateRequest alone

\* The variables of getRegisterRangeData, unused.
PollIdle ==
    /\ callerArg = {}
    /\ sofarProtocol = Protocol({})
    /\ mySystemSize = 0
    /\ mySerialNumber = [hi |-> 0, lo |-> 0]
    /\ requestedRegRangeDefs = <<>>
    /\ pc = "idle"
    /\ retryCounter = 0
    /\ connectedFlag = FALSE
    /\ mySocket = "None"
    /\ output = EmptyDict
    /\ rangeIdx = 0
    /\ data = <<>>
    /\ recvEnd = "none"
    /\ requests = <<>>
    /\ result = NoResult
    /\ exception = ""
    /\ earlier = FALSE
    /\ connectCalls = 0
    /\ everConnected = FALSE

\* The 16-bit halves the serial numbers are made of: 0, 1, 0x12, 0x123,
\* 0x1234, 0x8000, 0xFFFF.
HalfWords == {0, 1, 18, 291, 4660, 32768, 65535}

InitFrame ==
    /\ PollIdle
    /\ DecodeIdle
    /\ ScriptIdle
    /\ frameSerial \in [hi : HalfWords, lo : HalfWords]
    /\ frameRange \in DOMAIN RegisterMap
    /\ frame = NotCalled

GenerateFrame ==
    /\ frame = NotCalled
    /\ frame' = generateRequest(RegisterMap[frameRange], frameSerial)
    /\ UNCHANGED <<pollVars, decodeVars, scriptVars, frameSerial, frameRange>>

NextFrame == GenerateFrame

SpecFrame == InitFrame /\ [][NextFrame]_vars

\* ------------------------------------------------------- decoding alone

\* Largest number of bytes a response carries after its register data.
MaxTrailing == 2

\* Register data, followed by up to MaxTrailing bytes, that the decoding is
\* tried on: what the inverter may report, and all bits set.
DecodePayloads(name) ==
    LET n == 2 * (PyInt0(RegisterMap[name].registerEnd)
                  - PyInt0(RegisterMap[name].registerStart) + 1)
    IN { r \o [i \in 1..MaxTrailing |-> 21] : r \in DeviceRegisters(name) }
         \cup { [i \in 1..(n + MaxTrailing) |-> 255] }

\* Every non-empty prefix of a response with such a payload.
DecodeInputs(name) ==
    UNION { { SubSeq(ResponseHeader \o r, 1, n) : n \in 1..(28 + Len(r)) } :
            r \in DecodePayloads(name) }

InitDecode ==
    /\ PollIdle
    /\ FrameIdle
    /\ ScriptIdle
    /\ decodeRange \in DOMAIN RegisterMap
    /\ decodeData \in DecodeInputs(decodeRange)
    /\ decoded = NotCalled

Decode ==
    /\ decoded = NotCalled
    /\ decoded' = DataResult(decodeRegisterRange(RegisterMap[decodeRange], decodeData))
    /\ UNCHANGED <<pollVars, frameVars, scriptVars, decodeRange, decodeData>>

NextDecode == Decode

SpecDecode == InitDecode /\ [][NextDecode]_vars

\* ------------------------------------------------- the calling script

\* Largest number of the settings pvo_v7 ... pvo_v12 that are filled in.
MaxOptional == 1

\* What a setting pvo_v<i> may hold, as the parts tmp.split('.') gives: the
\* empty string (no parts), a field of a range the script knows, and a field
\* of a range it does not know.
OptionalSettings ==
    { <<>>,
      <<"SystemInfo", "Temperature_Env1">>,
      <<"Battery", "Level">> }

\* pvo_system_size of the script's settings, in kW: the checks on the system
\* size are on.
ScriptSizes == {5}

\* What pvo_upload_temperature and pvo_upload_voltage may hold.
FlagSettings == {"", "True", "False"}

allRegRanges == {"GridOutput", "SystemInfo", "EnergyTodayTotals", "PVOutput"}

\* "if isValidString(tmp)" and "len(tmp) == 2 and tmp[0] in allRegRanges"
ValidSetting(tmp) == Len(tmp) = 2 /\ tmp[1] \in allRegRanges

\* requiredRegRanges of the script after its loop over the settings.
ScriptRanges(settings) ==
    {"GridOutput", "EnergyTodayTotals", "PVOutput"}
        \cup { settings[i][1] : i \in { i \in DOMAIN settings : ValidSetting(settings[i]) } }

\* int(x) of a float kept in hundredths: towards zero.
PyInt(h) == IF h >= 0 THEN h \div 100 ELSE -((-h) \div 100)

InitScript ==
    /\ callerArg = {}
    /\ sofarProtocol \in ScriptProtocols
    /\ mySystemSize \in ScriptSizes
    /\ mySerialNumber = [hi |-> 4660, lo |-> 22136]
    /\ requestedRegRangeDefs = <<>>
    /\ pc = "idle"
    /\ retryCounter = 0
    /\ connectedFlag = FALSE
    /\ mySocket = "None"
    /\ output = EmptyDict
    /\ rangeIdx = 0
    /\ data = <<>>
    /\ recvEnd = "none"
    /\ requests = <<>>
    /\ result = NoResult
    /\ exception = ""
    /\ earlier = FALSE
    /\ connectCalls = 0
    /\ everConnected = FALSE
    /\ FrameIdle
    /\ DecodeIdle
    /\ pvoV \in [1..MaxOptional -> OptionalSettings]
    /\ scriptPc = "start"
    /\ upload = NoUpload

\* Lines 73-102: the settings are checked, the device object is made and
\* getRegisterRangeData is called with the ranges to poll.
ScriptStart ==
    /\ scriptPc = "start"
    /\ pvoV' = [i \in DOMAIN pvoV |-> IF ValidSetting(pvoV[i]) THEN pvoV[i] ELSE <<>>]
    /\ callerArg' = ScriptRanges(pvoV)
    /\ pc' = "call"
    /\ scriptPc' = "poll"
    /\ UNCHANGED <<sofarProtocol, mySystemSize, mySerialNumber, requestedRegRangeDefs,
                   retryCounter, connectedFlag, mySocket, output, rangeIdx, data, recvEnd,
                   requests, result, exception, earlier, connectCalls, everConnected, frameVars,
                   decodeVars, upload>>

\* An exception that left getRegisterRangeData ends the script.
ScriptDies ==
    /\ scriptPc = "poll"
    /\ pc = "raised"
    /\ scriptPc' = "raised"
    /\ UNCHANGED <<pollVars, frameVars, decodeVars, pvoV, upload>>

\* The checks of the script with the loop over the register map replaced by
\* a loop over the ranges the script asked for.
ScriptOutcome_RequestedOnly(returned, protocol, size) ==
    LET cv == returned.value
    IN IF returned.kind # "dict" \/ DOMAIN cv = {} THEN "exit1"
       ELSE IF \E regRangeName \in callerArg \cap DOMAIN protocol : regRangeName \notin DOMAIN cv
            THEN "exit1"
       ELSE IF size > 0 /\ ~HasField(cv, "EnergyTodayTotals", "PV_Generation_Today")
            THEN "raised"
       ELSE IF size > 0 /\ cv["EnergyTodayTotals"]["PV_Generation_Today"] > 10 * size * 100
            THEN "exit1"
       ELSE IF ~HasField(cv, "PVOutput", "Power_PV1") \/ ~HasField(cv, "PVOutput", "Power_PV2")
            THEN "raised"
       ELSE IF PowerTotal(cv) < 10 * 100 THEN "exit1"
       ELSE IF size > 0 /\ PowerTotal(cv) > 1200 * size * 100 THEN "exit1"
       ELSE "upload"

\* Lines 103-130 on what getRegisterRangeData returned, statement by
\* statement: where the script goes next (values in hundredths).
ScriptOutcome(returned, protocol, size) ==
    LET cv == returned.value
    IN IF returned.kind # "dict" \/ DOMAIN cv = {} THEN "exit1"
       ELSE IF \E regRangeName \in DOMAIN protocol : regRangeName \notin DOMAIN cv
            THEN "exit1"
       ELSE IF size > 0 /\ ~HasField(cv, "EnergyTodayTotals", "PV_Generation_Today")
            THEN "raised"
       ELSE IF size > 0 /\ cv["EnergyTodayTotals"]["PV_Generation_Today"] > 10 * size * 100
            THEN "exit1"
       ELSE IF ~HasField(cv, "PVOutput", "Power_PV1") \/ ~HasField(cv, "PVOutput", "Power_PV2")
            THEN "raised"
       ELSE IF PowerTotal(cv) < 10 * 100 THEN "exit1"
       ELSE IF size > 0 /\ PowerTotal(cv) > 1200 * size * 100 THEN "exit1"
       ELSE "upload"

\* Lines 103-130: the checks the script makes on what the poll returned.
ScriptChecks ==
    /\ scriptPc = "poll"
    /\ pc = "done"
    /\ scriptPc' = ScriptOutcome(result, sofarProtocol, mySystemSize)
    /\ UNCHANGED <<pollVars, frameVars, decodeVars, pvoV, upload>>

\* The name of the upload parameter of the i-th setting: v7, v8, ...
OptionalName(i) == <<"v7", "v8", "v9", "v10", "v11", "v12">>[i]

\* The settings whose field the try statement of lines 143-148 can read.
Readable(cv, settings) ==
    { i \in DOMAIN settings :
        /\ settings[i] # <<>>
        /\ HasField(cv, settings[i][1], settings[i][2]) }

\* The parameters v1, v2, ... of the upload request built by lines 134-148
\* for the flags temperature and voltage.
UploadParams(cv, settings, temperature, voltage) ==
    LET optional == Readable(cv, settings)
        names == {"v1", "v2"}
                   \cup (IF Truthy(temperature) THEN {"v5"} ELSE {})
                   \cup (IF Truthy(voltage) THEN {"v6"} ELSE {})
                   \cup { OptionalName(i) : i \in optional }
    IN [n \in names |->
          CASE n = "v1" -> cv["EnergyTodayTotals"]["PV_Generation_Today"] * 10
            [] n = "v2" -> PowerTotal(cv)
            [] n = "v5" -> cv["SystemInfo"]["Temperature_Env1"]
            [] n = "v6" -> cv["GridOutput"]["Voltage_Phase_R"]
            [] OTHER -> LET i == CHOOSE i \in optional : OptionalName(i) = n
                        IN PyInt(cv[settings[i][1]][settings[i][2]])]

\* Whether building the request raises KeyError.
UploadRaises(cv, temperature, voltage) ==
    \/ ~HasField(cv, "EnergyTodayTotals", "PV_Generation_Today")
    \/ Truthy(temperature) /\ ~HasField(cv, "SystemInfo", "Temperature_Env1")
    \/ Truthy(voltage) /\ ~HasField(cv, "GridOutput", "Voltage_Phase_R")

\* Lines 132-149: the request is built and sent to pvoutput.org.
ScriptUpload ==
    /\ scriptPc = "upload"
    /\ \E temperature \in FlagSettings, voltage \in FlagSettings :
          IF UploadRaises(result.value, temperature, voltage)
          THEN /\ scriptPc' = "raised"
               /\ upload' = [status |-> "KeyError", params |-> EmptyDict,
                             temperature |-> temperature, voltage |-> voltage]
          ELSE /\ scriptPc' = "uploaded"
               /\ upload' = [status |-> "sent",
                             params |-> UploadParams(result.value, pvoV, temperature, voltage),
                             temperature |-> temperature, voltage |-> voltage]
    /\ UNCHANGED <<pollVars, frameVars, decodeVars, pvoV>>

NextScript ==
    \/ ScriptStart \/ Normalize \/ Connect \/ Send \/ Recv \/ Check
    \/ ScriptChecks \/ ScriptUpload \/ ScriptDies

\* One run of the script sofar2PVO.py, from its reading of the settings on.
SpecScript == InitScript /\ [][NextScript]_vars

\* ------------------------------------------------------------ properties

NoDuplicates(list) == \A i, j \in 1..Len(list) : i # j => list[i] # list[j]

ResultReturned == pc = "done" /\ result.kind = "dict"

\* The Register Map defines the two ranges the plausibility check reads.
RequiredDefined == {"EnergyTodayTotals", "PVOutput"} \subseteq DOMAIN sofarProtocol

\* C1 (the number of attempts): when every connection attempt of a call has
\* failed and the call has returned, it has made exactly maxRetries (10)
\* connection attempts and has returned False.
C1_TenAttemptsThenNoData ==
    (pc = "done" /\ ~everConnected) => (result = NoData /\ connectCalls = maxRetries)

\* C2 as stated, under a Register Map that defines both plausibility ranges: a
\* returned result has an entry for every range the caller asked for and for
\* both plausibility ranges.
C2_EveryRequestedRange ==
    (ResultReturned /\ RequiredDefined) =>
        (callerArg \cup {"EnergyTodayTotals", "PVOutput"}) \subseteq DOMAIN result.value

\* C2, amended: a returned result has an entry for every range, among those the
\* caller asked for and the two plausibility ranges, that the Register Map
\* defines.
C2_EveryDefinedRange ==
    ResultReturned =>
        ((callerArg \cup {"EnergyTodayTotals", "PVOutput"}) \cap DOMAIN sofarProtocol)
            \subseteq DOMAIN result.value

\* A result is returned to a caller who asked for GridOutput and left
\* EnergyTodayTotals out: it holds GridOutput and the added range.
C2_Witness ==
    /\ ResultReturned
    /\ "GridOutput" \in callerArg
    /\ "EnergyTodayTotals" \notin callerArg
    /\ {"GridOutput", "EnergyTodayTotals", "PVOutput"} \subseteq DOMAIN result.value

\* C3: with a Register Map that defines both plausibility ranges, the list polled
\* in the attempts holds EnergyTodayTotals and PVOutput and no name twice.
C3_BothRequiredOnce ==
    (pc # "call" /\ RequiredDefined) =>
        /\ InList("EnergyTodayTotals", requestedRegRangeDefs)
        /\ InList("PVOutput", requestedRegRangeDefs)
        /\ NoDuplicates(requestedRegRangeDefs)

\* C4, under a Register Map that defines both plausibility ranges: once the
\* retry loop has started the list holds no name the Register Map does not
\* define, and no attempt fails looking one up.
C4_UndefinedRemoved ==
    (pc # "call" /\ RequiredDefined) =>
        /\ \A i \in 1..Len(requestedRegRangeDefs) :
               requestedRegRangeDefs[i] \in DOMAIN sofarProtocol
        /\ ~(pc = "raised" /\ exception = "KeyError" /\ rangeIdx \in 1..Len(requestedRegRangeDefs))

\* An attempt has decoded the three values the plausibility check compares.
ValuesDecoded(d) ==
    /\ HasField(d, "EnergyTodayTotals", "PV_Generation_Today")
    /\ HasField(d, "PVOutput", "Power_PV1")
    /\ HasField(d, "PVOutput", "Power_PV2")

\* The limits of C5, written out: energy above 10 * C or power above 1200 * C.
ExceedsLimits(d, size) ==
    \/ d["EnergyTodayTotals"]["PV_Generation_Today"] > 10 * size * 100
    \/ d["PVOutput"]["Power_PV1"] + d["PVOutput"]["Power_PV2"] > 1200 * size * 100

\* C5: with a capacity C > 0, a result that is returned does not exceed the
\* limits, and the step that evaluates an attempt whose decoded values exceed
\* them closes the session and goes on to the next attempt or ends the call
\* with False.
C5_ImplausibleNeverReturned ==
    [][ /\ (pc' = "done" /\ result'.kind = "dict" /\ mySystemSize > 0)
            => ~ExceedsLimits(result'.value, mySystemSize)
        /\ (pc = "check" /\ mySystemSize > 0 /\ ValuesDecoded(output)
                /\ ExceedsLimits(output, mySystemSize))
            => /\ mySocket' = "closed"
               /\ connectedFlag' = FALSE
               /\ \/ pc' = "connect" /\ retryCounter' = retryCounter + 1
                  \/ pc' = "done" /\ result' = NoData ]_vars

\* An attempt with 60 kWh decoded for a 5 kW system was rejected and the next
\* attempt is about to connect.
C5_Witness ==
    /\ pc = "connect"
    /\ mySystemSize = 5
    /\ retryCounter > 1
    /\ rangeIdx = Len(requestedRegRangeDefs) + 1
    /\ ValuesDecoded(output)
    /\ output["EnergyTodayTotals"]["PV_Generation_Today"] = 6000
    /\ mySocket = "closed"

\* C6: with capacity 0 the step that evaluates an attempt in which every listed
\* range was decoded and the power fields are present returns that attempt's
\* output, whatever the values; an evaluated attempt is rejected only under a
\* capacity other than 0.
C6_NoCheckWithoutCapacity ==
    [][ /\ (pc = "check" /\ mySystemSize = 0
                /\ ~RangeMissing(requestedRegRangeDefs, output)
                /\ HasField(output, "PVOutput", "Power_PV1")
                /\ HasField(output, "PVOutput", "Power_PV2"))
            => (pc' = "done" /\ result' = DataResult(output))
        /\ (pc = "check" /\ pc' = "connect") => mySystemSize # 0 ]_vars

\* With capacity 0 a result was returned whose energy (60 kWh) and power
\* (8000 W) are beyond what any check for a 5 kW system accepts.
C6_Witness ==
    /\ ResultReturned
    /\ mySystemSize = 0
    /\ ValuesDecoded(result.value)
    /\ result.value["EnergyTodayTotals"]["PV_Generation_Today"] = 6000
    /\ PowerTotal(result.value) = 800000

\* C7, for a caller who asked for both plausibility ranges under a Register Map
\* that defines them: no failure of a connected attempt leaves
\* getRegisterRangeData as an exception, neither a receive step nor the
\* evaluation of the decoded data raises.
C7_NoFailureEscapes ==
    [][(pc \in {"recv", "check"} /\ RequiredDefined
            /\ {"EnergyTodayTotals", "PVOutput"} \subseteq callerArg)
        => (pc' # "raised")]_vars

\* C8: _connect never raises, and after a failed connect the flag is False.
C8_ConnectNeverRaises ==
    [][(pc = "connect") => (pc' # "raised" /\ (pc' # "send" => ~connectedFlag'))]_vars

\* C9: for every serial number and range, _generateRequest returns a frame of
\* 36 bytes whose bytes 7-10 are the serial low byte first, whose byte 34 is
\* the sum of bytes 1-33 modulo 256 and whose bytes 32-33 are the
\* CRC-16/MODBUS of bytes 26-31, low byte first.
C9_FrameLayout ==
    frame # NotCalled =>
        /\ frame.kind = "bytes"
        /\ Len(frame.bytes) = 36
        /\ SubSeq(frame.bytes, 8, 11) =
               <<frameSerial.lo % 256, frameSerial.lo \div 256,
                 frameSerial.hi % 256, frameSerial.hi \div 256>>
        /\ frame.bytes[35] = SumBytes(frame.bytes, 1, 34) % 256
        /\ frame.bytes[33] = Modbus(SubSeq(frame.bytes, 27, 32)) % 256
        /\ frame.bytes[34] = Modbus(SubSeq(frame.bytes, 27, 32)) \div 256

\* The names of the fields whose register lies in the range and has its two
\* bytes within the data.
FieldsWithinData(regRangeDef, d) ==
    LET regStart == PyInt0(regRangeDef.registerStart)
        regEnd == PyInt0(regRangeDef.registerEnd)
    IN { regRangeDef.registers[k].name :
           k \in { k \in DOMAIN regRangeDef.registers :
                     /\ PyInt0(k) \in regStart..regEnd
                     /\ 28 + 2 * (PyInt0(k) - regStart) + 2 <= Len(d) } }

\* C10: decoding a non-empty byte sequence, also a short one, gives a mapping
\* that holds exactly the fields of the registers before the first offset idx
\* with 28 + 2*idx + 2 beyond the data: nothing at or after it is decoded.
C10_DecodingTotal ==
    decoded # NotCalled =>
        /\ decoded.kind = "dict"
        /\ DOMAIN decoded.value = FieldsWithinData(RegisterMap[decodeRange], decodeData)

\* A response that ends inside the register data was decoded to some of the
\* range's fields, not all.
C10_Witness ==
    /\ decoded # NotCalled
    /\ Len(decodeData) > 28
    /\ DOMAIN decoded.value # {}
    /\ DOMAIN decoded.value #
           {RegisterMap[decodeRange].registers[k].name :
                k \in DOMAIN RegisterMap[decodeRange].registers}

\* The keys of a range's register entries, the number of its registers and
\* the offset of a register's first byte in a response.
FieldKeys(regRangeDef) ==
    { k \in DOMAIN regRangeDef.registers :
        PyInt0(k) \in PyInt0(regRangeDef.registerStart)..PyInt0(regRangeDef.registerEnd) }

RegisterCount(regRangeDef) ==
    PyInt0(regRangeDef.registerEnd) - PyInt0(regRangeDef.registerStart) + 1

FieldStart(regRangeDef, k) == 28 + 2 * (PyInt0(k) - PyInt0(regRangeDef.registerStart))

\* The bytes that encode the field of register k in the response d.
FieldBytes(regRangeDef, k, d) ==
    SubSeq(d, FieldStart(regRangeDef, k) + 1,
           FieldStart(regRangeDef, k) + WidthOf(regRangeDef.registers[k].valueType))

\* C11 (round trip): every field whose bytes are all in the response decodes to
\* the value its bytes encode big-endian in the field's type, times the scale
\* factor: an unsigned field never decodes to a negative number, and its
\* value is the unsigned reading of its bytes (compared where that reading is
\* below 2^31); a signed field decodes to the two's complement reading.
C11_RoundTrip ==
    decoded # NotCalled =>
        \A k \in FieldKeys(RegisterMap[decodeRange]) :
            LET regRangeDef == RegisterMap[decodeRange]
                regDef == regRangeDef.registers[k]
                b == FieldBytes(regRangeDef, k, decodeData)
                val == decoded.value[regDef.name]
            IN (FieldStart(regRangeDef, k) + WidthOf(regDef.valueType) <= Len(decodeData)) =>
                  IF regDef.valueType \in {"u16", "u32"}
                  THEN /\ val >= 0
                       /\ (b[1] < 128 \/ Len(b) = 2) => val = BytesValue(b) * FactorOf(regDef)
                  ELSE val = FromBytesBig(b, TRUE) * FactorOf(regDef)

\* The complete responses that the bytes d are the beginning of.
Completions(name, d) ==
    { ResponseHeader \o r : r \in { r \in DecodePayloads(name) :
        /\ Len(d) <= 28 + Len(r)
        /\ SubSeq(ResponseHeader \o r, 1, Len(d)) = d } }

\* C12 (truncated response): no field is decoded from fewer bytes than its
\* type needs, and when the bytes of the last 2 registers of the range are
\* missing, the fields of those 2 registers are absent and every field of an
\* earlier register is present with the value the complete response gives.
C12_TruncatedDecode ==
    decoded # NotCalled =>
        LET regRangeDef == RegisterMap[decodeRange]
            n == RegisterCount(regRangeDef)
            regStart == PyInt0(regRangeDef.registerStart)
        IN /\ \A k \in FieldKeys(regRangeDef) :
                  regRangeDef.registers[k].name \in DOMAIN decoded.value =>
                      FieldStart(regRangeDef, k) + WidthOf(regRangeDef.registers[k].valueType)
                          <= Len(decodeData)
           /\ (Len(decodeData) = 28 + 2 * (n - 2)) =>
                  \A k \in FieldKeys(regRangeDef) :
                      LET name == regRangeDef.registers[k].name
                      IN IF PyInt0(k) - regStart >= n - 2
                         THEN name \notin DOMAIN decoded.value
                         ELSE /\ name \in DOMAIN decoded.value
                              /\ \A full \in Completions(decodeRange, decodeData) :
                                     decoded.value[name] =
                                         decodeRegisterRange(regRangeDef, full)[name]

\* The definition of the range the inner loop is at.
CurrentDef == sofarProtocol[requestedRegRangeDefs[rangeIdx]]

\* C14: the pass of the inner loop for a range whose definition lacks
\* registerStart or registerEnd skips the range: the attempt goes on with the
\* next range (or with the checks) and the session stays connected.
C14_BadRangeSkipped ==
    [][(pc = "send" /\ requestedRegRangeDefs[rangeIdx] \in DOMAIN sofarProtocol
            /\ ~WellFormed(CurrentDef))
        => /\ pc' \in {"send", "check"}
           /\ rangeIdx' = rangeIdx + 1
           /\ retryCounter' = retryCounter
           /\ connectedFlag' /\ mySocket' = "open"]_vars

\* C15: a receive whose data is decoded and stored in the attempt's output did
\* not end by a timeout and was not short of the range's payload; every other
\* receive ends the attempt.
C15_ShortReadAborts ==
    [][(pc = "recv" /\ pc' # "recv")
        => \/ pc' \in {"connect", "done"} /\ ~connectedFlag'
           \/ /\ pc' \in {"send", "check"}
              /\ recvEnd' # "timeout"
              /\ Len(data') >= 28 + 2 * RegisterCount(CurrentDef)]_vars

\* C16: when the receive loop stops on the length condition, the bytes of all
\* registers of the range (positions up to 28 + 2*(end-start+1)) have arrived.
C16_StopsWithAllRegisters ==
    [][(pc = "recv" /\ pc' \in {"send", "check"} /\ recvEnd' = "enough")
        => Len(data') >= 28 + 2 * RegisterCount(CurrentDef)]_vars

\* C17: whenever the connected flag is False no connection is open; a step
\* that ends an attempt after a send, receive, decoding or plausibility
\* failure leaves the socket closed and the flag False, and an attempt that
\* starts with the flag False calls _connect for a new connection.
C17_TornDownNotRepaired ==
    /\ [](~connectedFlag => mySocket # "open")
    /\ [][ /\ (pc \in {"send", "recv", "check"} /\ pc' = "connect")
               => (mySocket' = "closed" /\ ~connectedFlag')
           /\ (pc \in {"send", "recv", "check"} /\ pc' = "done" /\ result' = NoData)
               => (mySocket' = "closed" /\ ~connectedFlag')
           /\ (pc = "connect" /\ ~connectedFlag) => connectCalls' = connectCalls + 1
           /\ (pc = "connect" /\ pc' = "send") => (mySocket' = "open" /\ connectedFlag') ]_vars

\* An attempt that had a connection has failed: its socket is closed, the flag
\* is False and the next attempt is about to connect.
C17_Witness ==
    /\ pc = "connect"
    /\ everConnected
    /\ retryCounter > 1
    /\ mySocket = "closed"
    /\ ~connectedFlag

\* C18: the exchanges of an attempt are sequential.  While a response is
\* received, requests were sent for exactly the ranges up to the current one,
\* in the list's order; a request is sent only when every range requested
\* before in the attempt was decoded to a non-empty mapping; a returned
\* result comes from an attempt with one request per listed range, and no
\* request follows the return.
C18_Sequential ==
    /\ [](pc = "recv" =>
            /\ rangeIdx \in 1..Len(requestedRegRangeDefs)
            /\ requests = SubSeq(requestedRegRangeDefs, 1, rangeIdx))
    /\ [](ResultReturned => requests = requestedRegRangeDefs)
    /\ [][ /\ (requests' # requests /\ requests' # <<>>)
               => /\ pc = "send" /\ pc' = "recv"
                  /\ requests' = Append(requests, requestedRegRangeDefs[rangeIdx])
                  /\ \A i \in 1..Len(requests) :
                        /\ requests[i] \in DOMAIN output
                        /\ DOMAIN output[requests[i]] # {}
           /\ (pc = "done") => (pc' = "done" /\ requests' = requests) ]_vars

\* The response to the second request of an attempt is being received.
C18_Witness ==
    /\ pc = "recv"
    /\ rangeIdx = 2
    /\ requests = SubSeq(requestedRegRangeDefs, 1, 2)
    /\ requests[1] \in DOMAIN output

\* The call has ended, by a return or by an exception.
CallOver == pc \in {"done", "raised"}

\* Every call ends, one way or the other.
EveryCallEnds == <>CallOver

\* C19: every call of getRegisterRangeData ends by returning a result or False
\* ('no data'), whatever the connect, send and receive outcomes are, after no
\* more than maxRetries (10) attempts.
C19_Terminates ==
    /\ <>(pc = "done" /\ result.kind \in {"dict", "False"})
    /\ [](retryCounter <= maxRetries /\ connectCalls <= maxRetries)


\* The script has sent its request to pvoutput.org.
Uploaded == scriptPc = "uploaded" /\ upload.status = "sent"

\* The settings pvo_v7.. that name a field the poll result lacks.
AbsentOptional ==
    { i \in DOMAIN pvoV :
        pvoV[i] # <<>> /\ ~HasField(result.value, pvoV[i][1], pvoV[i][2]) }

\* The poll result holds the two powers and their sum is below 10.
LowPower(d) ==
    /\ HasField(d, "PVOutput", "Power_PV1")
    /\ HasField(d, "PVOutput", "Power_PV2")
    /\ PowerTotal(d) < 10 * 100

\* C13: getRegisterRangeData applies no lower bound on power: an attempt
\* that passes the sanity statements and the upper bounds is returned as the
\* result also when Power_PV1 + Power_PV2 is below 10; the script then exits
\* with status 1 on such a result and sends nothing, so nothing is ever
\* uploaded with a total power below 10.
C13_NoLowerBoundInPoll ==
    /\ [](Uploaded => ~LowPower(result.value))
    /\ [][ /\ ( /\ pc = "check"
               /\ ~CheckRaises(output, mySystemSize)
               /\ (mySystemSize = 0 \/ ~TooLarge(output, mySystemSize))
               /\ PowerTotal(output) < 10 * 100 )
               => (pc' = "done" /\ result' = DataResult(output))
           /\ ( /\ scriptPc = "poll"
               /\ pc = "done"
               /\ result.kind = "dict"
               /\ LowPower(result.value) )
               => (scriptPc' = "exit1" /\ upload' = NoUpload) ]_vars

\* A result with total power below 10 that has every range of the register
\* map and passes the energy check was returned, and the script has exited
\* with status 1 on it.
C13_Witness ==
    /\ scriptPc = "exit1"
    /\ upload = NoUpload
    /\ ResultReturned
    /\ DOMAIN sofarProtocol \subseteq DOMAIN result.value
    /\ LowPower(result.value)
    /\ HasField(result.value, "EnergyTodayTotals", "PV_Generation_Today")
    /\ ~TooLarge(result.value, mySystemSize)
    /\ mySystemSize > 0

\* The optional upload parameters whose field the poll result lacks, for
\* the flags temperature and voltage.
AbsentParams(cv, settings, temperature, voltage) ==
    (IF Truthy(temperature) /\ ~HasField(cv, "SystemInfo", "Temperature_Env1")
     THEN {"v5"} ELSE {})
    \cup (IF Truthy(voltage) /\ ~HasField(cv, "GridOutput", "Voltage_Phase_R")
          THEN {"v6"} ELSE {})
    \cup { OptionalName(i) : i \in AbsentOptional }

\* C20: when the script builds its request from a poll result that has the
\* energy of today, the request is sent, and no optional parameter (v5 for
\* the temperature, v6 for the voltage, v7.. for the pvo_v settings) whose
\* field the poll result lacks is part of it.
C20_AbsentOptionalOmitted ==
    [][ ( /\ scriptPc = "upload"
          /\ HasField(result.value, "EnergyTodayTotals", "PV_Generation_Today") )
        => /\ scriptPc' = "uploaded"
           /\ upload'.status = "sent"
           /\ AbsentParams(result.value, pvoV, upload'.temperature, upload'.voltage)
                 \cap DOMAIN upload'.params = {} ]_vars

\* The part of C20 on the pvo_v settings alone: a setting whose field the
\* poll result lacks does not stop the request and is not part of it.
OptionalSettingOmitted ==
    [][ ( /\ scriptPc = "upload"
          /\ scriptPc' = "uploaded" )
        => /\ upload'.status = "sent"
           /\ { OptionalName(i) : i \in AbsentOptional } \cap DOMAIN upload'.params = {}
           /\ \A i \in DOMAIN pvoV \ AbsentOptional :
                 pvoV[i] # <<>> => OptionalName(i) \in DOMAIN upload'.params ]_vars

\* The ranges a request was sent for in the current attempt.
RequestedNow == { requests[i] : i \in DOMAIN requests }

\* C21: a returned result holds data of one attempt only. The dict output
\* is empty when the inner loop of an attempt starts; it changes in no other
\* way than by that and by storing, for the range being polled, the decoding
\* of the bytes just received; so it only holds ranges requested in the
\* current attempt, and the dict returned is the output of the attempt that
\* returns, whatever the attempts before it had stored.
C21_OneAttemptOnly ==
    /\ [](pc \in {"send", "recv", "check"} => DOMAIN output \subseteq RequestedNow)
    /\ [](ResultReturned => DOMAIN result.value \subseteq RequestedNow)
    /\ [][ /\ (pc = "connect" /\ pc' \in {"send", "check"}) => output' = EmptyDict
           /\ (output' # output)
               => \/ pc = "connect" /\ output' = EmptyDict
                  \/ /\ pc = "recv"
                     /\ LET regRangeName == requestedRegRangeDefs[rangeIdx]
                        IN output' = Put(output, regRangeName,
                                         DecodingOf[sofarProtocol[regRangeName]][data'])
           /\ (pc = "check" /\ pc' = "done" /\ result'.kind = "dict")
               => result'.value = output ]_vars

\* A result was returned by an attempt that came after an attempt which had
\* stored a range and was then aborted or rejected.
C21_Witness ==
    /\ ResultReturned
    /\ earlier
    /\ retryCounter > 1
    /\ DOMAIN result.value # {}

\* The ranges of the register map that the poll result lacks.
AbsentRanges == DOMAIN sofarProtocol \ DOMAIN result.value

====
